---- MODULE Spec2Model ----
(***************************************************************************)
(* The two API endpoints of SoulVerse (src/unnamed/part_001: the voice      *)
(* handler, then the mixing handler): one process per in-flight request,    *)
(* served by the handler of the endpoint it is sent to and stepping from    *)
(* one await to the next, over a shared filesystem.  Every I/O call takes   *)
(* the outcomes the call can have (success, or the error the handler's      *)
(* catch / .catch receives).                                                *)
(*                                                                          *)
(* The browser application (src/App.tsx, src/unnamed/part_002) is modelled  *)
(* beside them, under its own specification AppSpec: the component's state, *)
(* its refs, the pending timers and audio sources, and the invocations of   *)
(* its asynchronous handlers, each with the values its closure captured.    *)
(***************************************************************************)
EXTENDS Integers, Sequences, FiniteSets, TLC

\* ---------------------------------------------------------------- bounds
NumReqs  == 2   \* requests in flight at the same time
MaxTime  == 0   \* Date.now() takes the values 0..MaxTime (0: the same millisecond)
MaxToken == 1   \* Math.random().toString(36).substring(7) takes 0..MaxToken
MaxSize  == 2   \* a produced mix has 1..MaxSize bytes
MaxPoems   == 2 \* poems the text model writes in a run
MaxSources == 3 \* audio source nodes created in a run
MaxGens    == 2 \* invocations of handleGeneratePoem in flight at the same time

Reqs   == 1..NumReqs
Times  == 0..MaxTime
Tokens == 0..MaxToken
Sizes  == 1..MaxSize

\* ------------------------------------------------------- program constants
\* The fixed track mapping: its keys.
MUSIC_FILES == {"ambient", "orchestral"}

\* What fields.musicChoice?.[0] is drawn from: undefined (""), a key of the
\* mapping, a string that is no key.
MusicInputs == {"", "ambient", "jazz"}

Methods == {"POST", "GET"}

MsgMethod  == "Method Not Allowed"
MsgNoVoice == "Voice audio file is required for mixing."
MsgNoMusic == "The harmony awaits. Please choose a background melody to accompany your verse."
MsgNoTrack == "The chosen melody is lost in the mists. Background music file not found on the server."
MsgFfmpeg  == "The blend was lost in the ether. Failed to weave voice and music into one tapestry."
MsgGeneric == "An unexpected sorrow befell the mixing. Please try again."

\* error.message of an exception thrown by a library or system call: a text
\* of the library's, or empty.
SysMessages == {"", "system error"}

\* error.message || generic
CatchMessage(m) == IF m # "" THEN m ELSE MsgGeneric

\* ------------------------------------------------------------ filesystem
\* let voiceFilePath = '' : the empty path.
NoPath == <<>>

\* path.join(tempDir, `voice-${Date.now()}-${token}.mp3`)
VoicePath(t, k) == <<"voice", t, k>>

\* path.join(tempDir, `final_mix-${Date.now()}-${token}.mp3`)
MixedPath(t, k) == <<"final_mix", t, k>>

\* voiceAudioFile.filepath: where the multipart parser wrote the upload.
UploadPath(r) == <<"upload", r, 0>>

ScratchPaths == {VoicePath(t, k) : t \in Times, k \in Tokens}
                  \cup {MixedPath(t, k) : t \in Times, k \in Tokens}
UploadPaths  == {UploadPath(r) : r \in Reqs}
AllPaths     == ScratchPaths \cup UploadPaths

NoFile == [owner |-> 0, size |-> 0]
NewFile(r, n) == [owner |-> r, size |-> n]

VARIABLES
  pc,             \* where each request's handler is suspended
  method,         \* req.method
  voiceAudioFile, \* files.voice_audio?.[0] : the upload's path, or NoPath
  musicChoice,    \* fields.musicChoice?.[0]
  voiceFilePath,  \* let voiceFilePath
  mixedFilePath,  \* let mixedFilePath
  ffmpegProc,     \* the external processor of the request
  readStream,     \* createReadStream(mixedFilePath)
  res,            \* the response object
  calls,          \* the I/O calls the handler made, with their outcomes
  fs,             \* the files on disk: path -> file
  tempDir,        \* whether process.cwd()/tmp exists
  voiceReq,       \* voice endpoint: req.method and req.body
  voiceRes,       \* voice endpoint: the response object
  mp3,            \* voice endpoint: what openai.audio.speech.create produced
  app,            \* App: the component's state, refs, timers and audio sources
  gen,            \* App: the invocations of handleGeneratePoem
  mix             \* App: the invocation of handleMusicChange

\* The state of the voice endpoint.
voiceVars == <<voiceReq, voiceRes, mp3>>

\* The state of the browser application.
appVars == <<app, gen, mix>>

\* The state of the two endpoints.
serverVars == <<pc, method, voiceAudioFile, musicChoice, voiceFilePath,
                mixedFilePath, ffmpegProc, readStream, res, calls, fs, tempDir,
                voiceVars>>

vars == <<serverVars, appVars>>

\* A fresh ServerResponse: statusCode defaults to 200, nothing sent.
NewResponse == [statusCode |-> 200, headersSent |-> FALSE, finished |-> FALSE,
                contentType |-> "", contentLength |-> -1, body |-> "", bytes |-> 0]

\* res.status(code).json({ error: msg })
Json(rs, code, msg) == [rs EXCEPT !.statusCode = code, !.headersSent = TRUE,
                                  !.finished = TRUE,
                                  !.contentType = "application/json", !.body = msg]

NoStream == [state |-> "none", size |-> 0]

\* The external processor: not spawned, running, or finished with 'end' (and
\* the size of the mix it wrote) or 'error'.
NoProc == [state |-> "none", size |-> 0]

\* ------------------------------------------------ voice endpoint: constants
\* req.body as the body parser hands it over: JSON null, an object without
\* text, an object whose text is the empty string, an object with a text.
Bodies == {"null", "{}", "{text:''}", "{text:'poem'}"}

\* const { text } = req.body : destructuring null throws a TypeError.
Destructures(b) == b # "null"

\* !text : undefined and the empty string are both falsy.
NoText(b) == b \in {"{}", "{text:''}"}

MsgNoText == "Poem text is required."

\* 'Failed to generate speech: ' + error.message
MsgSpeech(m) == IF m = "" THEN "Failed to generate speech: "
                          ELSE "Failed to generate speech: system error"

NoVoiceReq == [method |-> "", body |-> ""]

\* No speech requested; then pending, created (the API answered), ok (the
\* bytes are read, size of them) or error.
NoMp3 == [state |-> "none", size |-> 0]

\* ---------------------------------------------------------- App: constants
Gens == 1..MaxGens

\* generatedPoem: '' (0), or the n-th poem the text model wrote.
NoPoem == 0

\* The number of characters of the non-blank lines of a poem.
LineChars == <<1, 2>>

\* generatedPoem.split('\n').filter(line => line.trim() !== '')
Split(p) == IF p = NoPoem THEN <<>>
            ELSE [i \in DOMAIN LineChars |-> [poem |-> p, chars |-> LineChars[i]]]

\* The music options of the select element.
MusicOptions == {"none", "ambient", "orchestral"}

\* An MP3 ArrayBuffer: the narration of a poem, or its mix with a track; null.
NullMp3 == [poem |-> 0, kind |-> "null", music |-> "none"]
SpeechMp3(p) == [poem |-> p, kind |-> "speech", music |-> "none"]
MixedMp3(voice, m) == [poem |-> voice.poem, kind |-> "mixed", music |-> m]

\* buffer.duration of a decoded buffer, in seconds.
BufferDuration == 3

\* An AudioBuffer: what decodeAudioData made of an MP3 ArrayBuffer; null.
NullAudio == [poem |-> 0, kind |-> "null", music |-> "none", duration |-> 0]
Decoded(raw) == [poem |-> raw.poem, kind |-> raw.kind, music |-> raw.music,
                 duration |-> BufferDuration]

\* The MP3 data an AudioBuffer was decoded from.
TrackOf(buffer) == [poem |-> buffer.poem, kind |-> buffer.kind, music |-> buffer.music]

\* lineTimerRef.current = null
NoTimer == [src |-> 0, line |-> 0]

MsgMuse     == "The muse fell silent. Could not capture the voice of your poem."
MsgNoPoemText == "No poem text received from the model."
MsgNoContext  == "Audio context not initialized. Please interact with the page first."
MsgUnknownMix == "Unknown mixing error"
MsgDecode   == "Unable to decode audio data"
MsgNetwork  == "Failed to fetch"
MsgNoNarration == "A voice unheard. Generate your poem's narration before seeking its symphony."
MsgNoRegen  == "Failed to regenerate speech for 'none' music."
MsgNoVoiceMp3 == "Could not retrieve MP3 speech audio for mixing."

\* How a fetch ends: a 2xx response, another response, or a rejection.
FetchOutcomes == {"ok", "http error", "network error"}

\* part_002 lines 8-31: generateSpeech(text): the promise it returns, settled,
\* for each way its fetch of /api/voice can end: the catch block rethrows.
GenerateSpeech(p, outcome) ==
  IF outcome = "ok"
    THEN [fetch |-> outcome, settled |-> "resolved", value |-> SpeechMp3(p),
          message |-> ""]
    ELSE [fetch |-> outcome, settled |-> "rejected", value |-> NullMp3,
          message |-> MsgMuse]

\* The component after mounting (lines 12-35), before any interaction.
NewApp ==
  [generatedPoem |-> NoPoem,
   poemLines |-> <<>>,
   currentLineIndex |-> -1,
   speechOnlyDecodedBuffer |-> NullAudio,
   speechOnlyRawMp3Buffer |-> NullMp3,
   mixedDecodedBuffer |-> NullAudio,
   mixedRawMp3Buffer |-> NullMp3,
   currentPlaybackAudioBuffer |-> NullAudio,
   currentDownloadMp3Buffer |-> NullMp3,
   isPlaying |-> FALSE,
   isLoading |-> FALSE,
   errorMessage |-> "",
   musicChoice |-> "none",
   isMixing |-> FALSE,
   isMixedAudioPlaying |-> FALSE,
   audioContext |-> "none",     \* audioContextRef.current: none, or its state
   audioSourceRef |-> 0,        \* audioSourceRef.current: a source id, 0 = null
   lineTimerRef |-> NoTimer,    \* lineTimerRef.current
   timers |-> {},               \* pending setTimeout callbacks
   sources |-> {},              \* source nodes whose 'ended' is still to come,
                                \* each with its buffer and the seconds left
   sourceCount |-> 0,           \* source nodes created so far
   poemCount |-> 0,             \* poems written so far
   speechPromise |-> [fetch |-> "", settled |-> "none", value |-> NullMp3,
                      message |-> ""],
                                \* how the last generateSpeech call settled
   downloaded |-> NullMp3]      \* what the last download saved

\* The values of the render in which a handler was created, which its
\* closure (and those of the callbacks it calls) keeps reading.
Closure(a) ==
  [generatedPoem |-> a.generatedPoem,
   poemLines |-> a.poemLines,
   musicChoice |-> a.musicChoice,
   speechOnlyDecodedBuffer |-> a.speechOnlyDecodedBuffer,
   speechOnlyRawMp3Buffer |-> a.speechOnlyRawMp3Buffer,
   currentPlaybackAudioBuffer |-> a.currentPlaybackAudioBuffer]

\* No invocation of handleGeneratePoem in flight.
NoGen == [pc |-> "idle", cl |-> Closure(NewApp), poemText |-> NoPoem,
          speech |-> NullMp3]

\* No invocation of handleMusicChange in flight.
NoMix == [pc |-> "idle", cl |-> Closure(NewApp), newMusicChoice |-> "none",
          voice |-> NullMp3, mixed |-> NullMp3]

Init ==
  /\ app = NewApp
  /\ gen = [g \in Gens |-> NoGen]
  /\ mix = NoMix
  /\ pc = [r \in Reqs |-> "idle"]
  /\ method = [r \in Reqs |-> ""]
  /\ voiceAudioFile = [r \in Reqs |-> NoPath]
  /\ musicChoice = [r \in Reqs |-> ""]
  /\ voiceFilePath = [r \in Reqs |-> NoPath]
  /\ mixedFilePath = [r \in Reqs |-> NoPath]
  /\ ffmpegProc = [r \in Reqs |-> NoProc]
  /\ readStream = [r \in Reqs |-> NoStream]
  /\ res = [r \in Reqs |-> NewResponse]
  /\ calls = [r \in Reqs |-> <<>>]
  /\ fs = [p \in AllPaths |-> NoFile]
  /\ tempDir = FALSE
  /\ voiceReq = [r \in Reqs |-> NoVoiceReq]
  /\ voiceRes = [r \in Reqs |-> NewResponse]
  /\ mp3 = [r \in Reqs |-> NoMp3]

Called(r, c) == calls' = [calls EXCEPT ![r] = Append(@, c)]

\* catch (error) { if (!res.headersSent) res.status(500).json(...) } ; the
\* finally block then issues its unlinks, which complete in Finally.
Catch(r, m) ==
  /\ res' = [res EXCEPT ![r] = IF res[r].headersSent THEN @
                                ELSE Json(@, 500, CatchMessage(m))]
  /\ pc' = [pc EXCEPT ![r] = "finally"]

\* Lines 64-69: the method check, before the try block.
Receive(r) ==
  /\ pc[r] = "idle"
  /\ \E m \in Methods :
       /\ method' = [method EXCEPT ![r] = m]
       /\ IF m # "POST"
            THEN /\ res' = [res EXCEPT ![r] = Json(@, 405, MsgMethod)]
                 /\ pc' = [pc EXCEPT ![r] = "done"]
            ELSE /\ pc' = [pc EXCEPT ![r] = "parse"]
                 /\ UNCHANGED res
  /\ UNCHANGED <<voiceAudioFile, musicChoice, voiceFilePath, mixedFilePath,
                 ffmpegProc, readStream, calls, fs, tempDir>>
  /\ UNCHANGED <<voiceVars, appVars>>

\* Mutant of Validate: only the presence of musicChoice is tested, not its
\* membership in the track mapping.
ValidateAnyMusic(voice, mc) ==
  IF ~voice THEN "novoice"
  ELSE IF mc = "" THEN "nomusic"
  ELSE "ok"

\* Mutant of Validate: the narration part is not tested.
ValidateNoVoiceCheck(voice, mc) ==
  IF mc = "" \/ mc \notin MUSIC_FILES THEN "nomusic"
  ELSE "ok"

\* Lines 84-89: the two validation checks, in the code's order.
Validate(voice, mc) ==
  IF ~voice THEN "novoice"
  ELSE IF mc = "" \/ mc \notin MUSIC_FILES THEN "nomusic"
  ELSE "ok"

\* Lines 74-90: form.parse resolves or rejects; on success the parser has
\* written the narration part (if any) to its own upload path, and the two
\* validation checks run before the next await (fs.access).
Parse(r) ==
  /\ pc[r] = "parse"
  /\ \/ \E m \in SysMessages :
          /\ Called(r, <<"parse", NoPath, "error">>)
          /\ Catch(r, m)
          /\ UNCHANGED <<voiceAudioFile, musicChoice, fs>>
     \/ \E voice \in BOOLEAN, mc \in MusicInputs :
          /\ Called(r, <<"parse", NoPath, "ok">>)
          /\ voiceAudioFile' = [voiceAudioFile EXCEPT ![r] =
                                  IF voice THEN UploadPath(r) ELSE NoPath]
          /\ musicChoice' = [musicChoice EXCEPT ![r] = mc]
          /\ fs' = IF voice THEN [fs EXCEPT ![UploadPath(r)] = NewFile(r, 1)]
                            ELSE fs
          /\ CASE Validate(voice, mc) = "novoice" ->
                    /\ res' = [res EXCEPT ![r] = Json(@, 400, MsgNoVoice)]
                    /\ pc' = [pc EXCEPT ![r] = "finally"]
               [] Validate(voice, mc) = "nomusic" ->
                    /\ res' = [res EXCEPT ![r] = Json(@, 400, MsgNoMusic)]
                    /\ pc' = [pc EXCEPT ![r] = "finally"]
               [] OTHER ->
                    /\ pc' = [pc EXCEPT ![r] = "access"]
                    /\ UNCHANGED res
  /\ UNCHANGED <<method, voiceFilePath, mixedFilePath, ffmpegProc, readStream,
                 tempDir>>
  /\ UNCHANGED <<voiceVars, appVars>>

\* Mutant of TrackMissing: the missing track is reported as a client error.
TrackMissingAsBadRequest(rs) == Json(rs, 400, MsgNoMusic)

\* Line 97: the response when the mapped track file is not accessible.
TrackMissing(rs) == Json(rs, 500, MsgNoTrack)

\* Lines 93-98: await fs.access(musicSourceFilePath), with its own catch.
Access(r) ==
  /\ pc[r] = "access"
  /\ \/ /\ Called(r, <<"access", NoPath, "ok">>)
        /\ pc' = [pc EXCEPT ![r] = "mkdir"]
        /\ UNCHANGED res
     \/ /\ Called(r, <<"access", NoPath, "error">>)
        /\ res' = [res EXCEPT ![r] = TrackMissing(@)]
        /\ pc' = [pc EXCEPT ![r] = "finally"]
  /\ UNCHANGED <<method, voiceAudioFile, musicChoice, voiceFilePath,
                 mixedFilePath, ffmpegProc, readStream, fs, tempDir>>
  /\ UNCHANGED <<voiceVars, appVars>>

\* Lines 104-105: the two scratch paths, each from its own Date.now() and
\* Math.random() reading; the clock may tick between the two readings.
PathChoices ==
  {<<VoicePath(t1, k1), MixedPath(t2, k2)>> :
     t1 \in Times, k1 \in Tokens, t2 \in Times, k2 \in Tokens}

ScratchPathPairs == {pp \in PathChoices : pp[2][2] \in {pp[1][2], pp[1][2] + 1}}

\* Lines 101-108: await fs.mkdir(tempDir, { recursive: true }); then the paths
\* are generated and fs.rename is issued.
Mkdir(r) ==
  /\ pc[r] = "mkdir"
  /\ \/ \E m \in SysMessages :
          /\ Called(r, <<"mkdir", NoPath, "error">>)
          /\ Catch(r, m)
          /\ UNCHANGED <<voiceFilePath, mixedFilePath, tempDir>>
     \/ \E pp \in ScratchPathPairs :
          /\ Called(r, <<"mkdir", NoPath, "ok">>)
          /\ tempDir' = TRUE
          /\ voiceFilePath' = [voiceFilePath EXCEPT ![r] = pp[1]]
          /\ mixedFilePath' = [mixedFilePath EXCEPT ![r] = pp[2]]
          /\ pc' = [pc EXCEPT ![r] = "rename"]
          /\ UNCHANGED res
  /\ UNCHANGED <<method, voiceAudioFile, musicChoice, ffmpegProc, readStream, fs>>
  /\ UNCHANGED <<voiceVars, appVars>>

\* Lines 108-129: await fs.rename(upload, voiceFilePath); then ffmpeg is spawned.
Rename(r) ==
  /\ pc[r] = "rename"
  /\ \/ \E m \in SysMessages :
          /\ Called(r, <<"rename", voiceFilePath[r], "error">>)
          /\ Catch(r, m)
          /\ UNCHANGED <<fs, ffmpegProc>>
     \/ /\ fs[voiceAudioFile[r]] # NoFile
        /\ calls' = [calls EXCEPT ![r] =
                       @ \o << <<"rename", voiceFilePath[r], "ok">>,
                               <<"ffmpeg", mixedFilePath[r], "spawn">> >>]
        /\ fs' = [fs EXCEPT ![voiceFilePath[r]] = fs[voiceAudioFile[r]],
                            ![voiceAudioFile[r]] = NoFile]
        /\ ffmpegProc' = [ffmpegProc EXCEPT ![r].state = "running"]
        /\ pc' = [pc EXCEPT ![r] = "ffmpeg"]
        /\ UNCHANGED res
  /\ UNCHANGED <<method, voiceAudioFile, musicChoice, voiceFilePath,
                 mixedFilePath, readStream, tempDir>>
  /\ UNCHANGED <<voiceVars, appVars>>

\* Line 124: .on('end', () => resolve()) : the processor wrote the mix; then
\* fs.stat is issued.
FfmpegEnd(r) ==
  /\ pc[r] = "ffmpeg"
  /\ ffmpegProc[r].state = "running"
  /\ \E n \in Sizes :
       /\ fs' = [fs EXCEPT ![mixedFilePath[r]] = NewFile(r, n)]
       /\ ffmpegProc' = [ffmpegProc EXCEPT ![r] = [state |-> "end", size |-> n]]
  /\ pc' = [pc EXCEPT ![r] = "stat"]
  /\ UNCHANGED <<method, voiceAudioFile, musicChoice, voiceFilePath,
                 mixedFilePath, readStream, res, calls, tempDir>>
  /\ UNCHANGED <<voiceVars, appVars>>

\* Mutant of FfmpegError: the 'error' listener runs the processor again.
FfmpegErrorRetries(r) ==
  /\ pc[r] = "ffmpeg"
  /\ ffmpegProc[r].state = "running"
  /\ Called(r, <<"ffmpeg", mixedFilePath[r], "spawn">>)
  /\ UNCHANGED <<pc, method, voiceAudioFile, musicChoice, voiceFilePath,
                 mixedFilePath, ffmpegProc, readStream, res, fs, tempDir>>
  /\ UNCHANGED <<voiceVars, appVars>>

\* Mutant of FfmpegError: the 'error' listener resolves instead of rejecting.
FfmpegErrorResolves(r) ==
  /\ pc[r] = "ffmpeg"
  /\ ffmpegProc[r].state = "running"
  /\ \E partial \in BOOLEAN :
       fs' = IF partial THEN [fs EXCEPT ![mixedFilePath[r]] = NewFile(r, 0)]
                        ELSE fs
  /\ ffmpegProc' = [ffmpegProc EXCEPT ![r].state = "error"]
  /\ pc' = [pc EXCEPT ![r] = "stat"]
  /\ UNCHANGED <<method, voiceAudioFile, musicChoice, voiceFilePath,
                 mixedFilePath, readStream, res, calls, tempDir>>
  /\ UNCHANGED <<voiceVars, appVars>>

\* Lines 125-128: .on('error', ...) : reject with the fixed message; the
\* processor may have left a partial output behind.
FfmpegError(r) ==
  /\ pc[r] = "ffmpeg"
  /\ ffmpegProc[r].state = "running"
  /\ \E partial \in BOOLEAN :
       fs' = IF partial THEN [fs EXCEPT ![mixedFilePath[r]] = NewFile(r, 0)]
                        ELSE fs
  /\ ffmpegProc' = [ffmpegProc EXCEPT ![r].state = "error"]
  /\ Catch(r, MsgFfmpeg)
  /\ UNCHANGED <<method, voiceAudioFile, musicChoice, voiceFilePath,
                 mixedFilePath, readStream, calls, tempDir>>
  /\ UNCHANGED <<voiceVars, appVars>>

\* Lines 133-135: the three setHeader calls.
AudioHeaders(rs, size) == [rs EXCEPT !.contentType = "audio/mpeg",
                                     !.contentLength = size]

\* Mutant of Stat: the cleanup timer is armed right after pipe(), without
\* waiting for the stream's 'end'.
StatNoWait(r) ==
  /\ pc[r] = "stat"
  /\ \/ \E m \in SysMessages :
          /\ Called(r, <<"stat", mixedFilePath[r], "error">>)
          /\ Catch(r, m)
          /\ UNCHANGED readStream
     \/ /\ fs[mixedFilePath[r]] # NoFile
        /\ Called(r, <<"stat", mixedFilePath[r], "ok">>)
        /\ res' = [res EXCEPT ![r] = AudioHeaders(@, fs[mixedFilePath[r]].size)]
        /\ readStream' = [readStream EXCEPT ![r] = [state |-> "opening", size |-> 0]]
        /\ pc' = [pc EXCEPT ![r] = "timer"]
  /\ UNCHANGED <<method, voiceAudioFile, musicChoice, voiceFilePath,
                 mixedFilePath, ffmpegProc, fs, tempDir>>
  /\ UNCHANGED <<voiceVars, appVars>>

\* Lines 132-140: await fs.stat(mixedFilePath); then the headers are set and
\* the read stream is created and piped into the response.
Stat(r) ==
  /\ pc[r] = "stat"
  /\ \/ \E m \in SysMessages :
          /\ Called(r, <<"stat", mixedFilePath[r], "error">>)
          /\ Catch(r, m)
          /\ UNCHANGED readStream
     \/ /\ fs[mixedFilePath[r]] # NoFile
        /\ Called(r, <<"stat", mixedFilePath[r], "ok">>)
        /\ res' = [res EXCEPT ![r] = AudioHeaders(@, fs[mixedFilePath[r]].size)]
        /\ readStream' = [readStream EXCEPT ![r] = [state |-> "opening", size |-> 0]]
        /\ pc' = [pc EXCEPT ![r] = "stream"]
  /\ UNCHANGED <<method, voiceAudioFile, musicChoice, voiceFilePath,
                 mixedFilePath, ffmpegProc, fs, tempDir>>
  /\ UNCHANGED <<voiceVars, appVars>>

\* The read stream opens the file lazily: a missing file is an 'error' event
\* (lines 152-156: log, resolve, so that the finally block runs).
StreamOpen(r) ==
  /\ pc[r] = "stream"
  /\ readStream[r].state = "opening"
  /\ IF fs[mixedFilePath[r]] # NoFile
       THEN /\ readStream' = [readStream EXCEPT ![r] =
                                [state |-> "flowing", size |-> fs[mixedFilePath[r]].size]]
            /\ UNCHANGED pc
       ELSE /\ readStream' = [readStream EXCEPT ![r].state = "error"]
            /\ pc' = [pc EXCEPT ![r] = "finally"]
  /\ UNCHANGED <<method, voiceAudioFile, musicChoice, voiceFilePath,
                 mixedFilePath, ffmpegProc, res, calls, fs, tempDir>>
  /\ UNCHANGED <<voiceVars, appVars>>

\* readStream.pipe(res): one more byte of the file is written to the
\* response; the first write sends the headers.
StreamData(r) ==
  /\ pc[r] = "stream"
  /\ readStream[r].state = "flowing"
  /\ res[r].bytes < readStream[r].size
  /\ res' = [res EXCEPT ![r].bytes = @ + 1, ![r].headersSent = TRUE]
  /\ UNCHANGED <<pc, method, voiceAudioFile, musicChoice, voiceFilePath,
                 mixedFilePath, ffmpegProc, readStream, calls, fs, tempDir>>
  /\ UNCHANGED <<voiceVars, appVars>>

\* Lines 141-151: the whole file was read: pipe ends the response, and the
\* handler's 'end' listener arms the 100 ms timer.
StreamEnd(r) ==
  /\ pc[r] = "stream"
  /\ readStream[r].state = "flowing"
  /\ res[r].bytes = readStream[r].size
  /\ readStream' = [readStream EXCEPT ![r].state = "end"]
  /\ res' = [res EXCEPT ![r].headersSent = TRUE, ![r].finished = TRUE]
  /\ pc' = [pc EXCEPT ![r] = "timer"]
  /\ UNCHANGED <<method, voiceAudioFile, musicChoice, voiceFilePath,
                 mixedFilePath, ffmpegProc, calls, fs, tempDir>>
  /\ UNCHANGED <<voiceVars, appVars>>

\* Mutant of StreamError: the 'error' listener answers with a 500 JSON error.
StreamErrorResponds(r) ==
  /\ pc[r] = "stream"
  /\ readStream[r].state \in {"opening", "flowing"}
  /\ readStream' = [readStream EXCEPT ![r].state = "error"]
  /\ res' = [res EXCEPT ![r] = Json(@, 500, MsgGeneric)]
  /\ pc' = [pc EXCEPT ![r] = "finally"]
  /\ UNCHANGED <<method, voiceAudioFile, musicChoice, voiceFilePath,
                 mixedFilePath, ffmpegProc, calls, fs, tempDir>>
  /\ UNCHANGED <<voiceVars, appVars>>

\* Lines 152-156: a read error: log and resolve; the response is left as it is.
StreamError(r) ==
  /\ pc[r] = "stream"
  /\ readStream[r].state \in {"opening", "flowing"}
  /\ readStream' = [readStream EXCEPT ![r].state = "error"]
  /\ pc' = [pc EXCEPT ![r] = "finally"]
  /\ UNCHANGED <<method, voiceAudioFile, musicChoice, voiceFilePath,
                 mixedFilePath, ffmpegProc, res, calls, fs, tempDir>>
  /\ UNCHANGED <<voiceVars, appVars>>

\* The caller closes the connection while the body is being piped: pipe's
\* 'close' listener on the response unpipes and pauses the read stream, which
\* emits neither 'end' nor 'error' (line 138 uses pipe, not pipeline).
ClientDisconnect(r) ==
  /\ pc[r] = "stream"
  /\ readStream[r].state = "flowing"
  /\ readStream' = [readStream EXCEPT ![r].state = "unpiped"]
  /\ UNCHANGED <<pc, method, voiceAudioFile, musicChoice, voiceFilePath,
                 mixedFilePath, ffmpegProc, res, calls, fs, tempDir>>
  /\ UNCHANGED <<voiceVars, appVars>>

\* fs.unlink(p): ENOENT when nothing is at p (the empty path included);
\* otherwise the file is removed, or the call fails and the file stays.
UnlinkOutcomes(f, p) ==
  IF p = NoPath THEN {"ENOENT"}
  ELSE IF f[p] = NoFile THEN {"ENOENT"}
  ELSE {"ok", "EPERM"}

Unlinked(f, p, o) == IF o = "ok" THEN [f EXCEPT ![p] = NoFile] ELSE f

\* Mutant of UnlinkBoth: the mix output is not unlinked.
UnlinkVoiceOnly(r) ==
  \E o1 \in UnlinkOutcomes(fs, voiceFilePath[r]) :
    /\ fs' = Unlinked(fs, voiceFilePath[r], o1)
    /\ calls' = [calls EXCEPT ![r] = Append(@, <<"unlink", voiceFilePath[r], o1>>)]

\* Promise.allSettled([fs.unlink(voiceFilePath).catch(...),
\*                     fs.unlink(mixedFilePath).catch(...)])
UnlinkBoth(r) ==
  \E o1 \in UnlinkOutcomes(fs, voiceFilePath[r]) :
    \E o2 \in UnlinkOutcomes(fs, mixedFilePath[r]) :
      /\ fs' = Unlinked(Unlinked(fs, voiceFilePath[r], o1), mixedFilePath[r], o2)
      /\ calls' = [calls EXCEPT ![r] =
                     @ \o << <<"unlink", voiceFilePath[r], o1>>,
                             <<"unlink", mixedFilePath[r], o2>> >>]

\* Lines 144-150: the timer fires: both unlinks, then resolve().
PostStreamCleanup(r) ==
  /\ pc[r] = "timer"
  /\ UnlinkBoth(r)
  /\ pc' = [pc EXCEPT ![r] = "finally"]
  /\ UNCHANGED <<method, voiceAudioFile, musicChoice, voiceFilePath,
                 mixedFilePath, ffmpegProc, readStream, res, tempDir>>
  /\ UNCHANGED <<voiceVars, appVars>>

\* Mutant of Finally: no finally block.
FinallyNoUnlink(r) ==
  /\ pc[r] = "finally"
  /\ pc' = [pc EXCEPT ![r] = "done"]
  /\ UNCHANGED <<method, voiceAudioFile, musicChoice, voiceFilePath,
                 mixedFilePath, ffmpegProc, readStream, res, calls, fs, tempDir>>
  /\ UNCHANGED <<voiceVars, appVars>>

\* Mutant of Finally: the unlinks have no .catch and are awaited with
\* Promise.all, so that a rejected unlink (ENOENT included) leaves the handler
\* with an uncaught exception.
FinallyNoCatch(r) ==
  /\ pc[r] = "finally"
  /\ UnlinkBoth(r)
  /\ pc' = [pc EXCEPT ![r] =
              IF \A i \in (Len(calls[r]) + 1)..Len(calls'[r]) : calls'[r][i][3] = "ok"
                THEN "done" ELSE "threw"]
  /\ UNCHANGED <<method, voiceAudioFile, musicChoice, voiceFilePath,
                 mixedFilePath, ffmpegProc, readStream, res, tempDir>>
  /\ UNCHANGED <<voiceVars, appVars>>

\* Mutant of Finally: an unlink error other than ENOENT is surfaced to the
\* caller as an error response.
FinallySurfacesError(r) ==
  /\ pc[r] = "finally"
  /\ UnlinkBoth(r)
  /\ res' = [res EXCEPT ![r] =
               IF \E i \in (Len(calls[r]) + 1)..Len(calls'[r]) : calls'[r][i][3] = "EPERM"
                 THEN Json(@, 500, MsgGeneric) ELSE @]
  /\ pc' = [pc EXCEPT ![r] = "done"]
  /\ UNCHANGED <<method, voiceAudioFile, musicChoice, voiceFilePath,
                 mixedFilePath, ffmpegProc, readStream, tempDir>>
  /\ UNCHANGED <<voiceVars, appVars>>

\* Lines 164-170: the finally block.
Finally(r) ==
  /\ pc[r] = "finally"
  /\ UnlinkBoth(r)
  /\ pc' = [pc EXCEPT ![r] = "done"]
  /\ UNCHANGED <<method, voiceAudioFile, musicChoice, voiceFilePath,
                 mixedFilePath, ffmpegProc, readStream, res, tempDir>>
  /\ UNCHANGED <<voiceVars, appVars>>

\* ------------------------------------------------- voice endpoint: handler
\* The variables of the mixing handler that the voice handler never touches.
mixVars == <<method, voiceAudioFile, musicChoice, voiceFilePath, mixedFilePath,
             ffmpegProc, readStream, res, fs, tempDir>>

\* Mutant of VoiceMethodCheck: no method check.
VoiceAnyMethod(m) == TRUE

\* Line 8: req.method !== 'POST' is answered 405.
VoiceMethodCheck(m) == m = "POST"

\* Lines 7-24 of the voice handler: a request sent to /api/voice: the method
\* check, the destructuring of req.body (outside the try block), the text
\* check, and the call of the speech model.
VoiceReceive(r) ==
  /\ pc[r] = "idle"
  /\ \E m \in Methods, b \in Bodies :
       /\ voiceReq' = [voiceReq EXCEPT ![r] = [method |-> m, body |-> b]]
       /\ CASE ~VoiceMethodCheck(m) ->
                 /\ voiceRes' = [voiceRes EXCEPT ![r] = Json(@, 405, MsgMethod)]
                 /\ pc' = [pc EXCEPT ![r] = "done"]
                 /\ UNCHANGED <<mp3, calls>>
            [] VoiceMethodCheck(m) /\ ~Destructures(b) ->
                 /\ pc' = [pc EXCEPT ![r] = "threw"]
                 /\ UNCHANGED <<voiceRes, mp3, calls>>
            [] VoiceMethodCheck(m) /\ Destructures(b) /\ NoText(b) ->
                 /\ voiceRes' = [voiceRes EXCEPT ![r] = Json(@, 400, MsgNoText)]
                 /\ pc' = [pc EXCEPT ![r] = "done"]
                 /\ UNCHANGED <<mp3, calls>>
            [] OTHER ->
                 /\ Called(r, <<"speech", NoPath, "create">>)
                 /\ mp3' = [mp3 EXCEPT ![r].state = "pending"]
                 /\ pc' = [pc EXCEPT ![r] = "speech"]
                 /\ UNCHANGED voiceRes
  /\ UNCHANGED mixVars
  /\ UNCHANGED appVars

\* Lines 31-35: the catch block of the voice handler.
VoiceCatch(r, m) ==
  /\ voiceRes' = [voiceRes EXCEPT ![r] = Json(@, 500, MsgSpeech(m))]
  /\ mp3' = [mp3 EXCEPT ![r].state = "error"]
  /\ pc' = [pc EXCEPT ![r] = "done"]

\* Lines 19-26: await openai.audio.speech.create(...) resolves with the
\* API's response, or rejects.
SpeechCreate(r) ==
  /\ pc[r] = "speech"
  /\ \/ \E m \in SysMessages : VoiceCatch(r, m)
     \/ /\ mp3' = [mp3 EXCEPT ![r].state = "created"]
        /\ pc' = [pc EXCEPT ![r] = "arrayBuffer"]
        /\ UNCHANGED voiceRes
  /\ UNCHANGED <<mixVars, voiceReq, calls>>
  /\ UNCHANGED appVars

\* res.setHeader('Content-Type', 'audio/mpeg'); res.status(200).send(buffer)
SendAudio(rs, n) == [rs EXCEPT !.statusCode = 200, !.headersSent = TRUE,
                               !.finished = TRUE, !.contentType = "audio/mpeg",
                               !.contentLength = n, !.bytes = n]

\* Lines 26-30: await mp3.arrayBuffer() resolves with the bytes, which are
\* sent, or rejects.
SpeechBuffer(r) ==
  /\ pc[r] = "arrayBuffer"
  /\ \/ \E m \in SysMessages : VoiceCatch(r, m)
     \/ \E n \in Sizes :
          /\ mp3' = [mp3 EXCEPT ![r] = [state |-> "ok", size |-> n]]
          /\ voiceRes' = [voiceRes EXCEPT ![r] = SendAudio(@, n)]
          /\ pc' = [pc EXCEPT ![r] = "done"]
  /\ UNCHANGED <<mixVars, voiceReq, calls>>
  /\ UNCHANGED appVars

\* The steps of the voice handler for request r.
VoiceStep(r) ==
  \/ VoiceReceive(r)
  \/ SpeechCreate(r)
  \/ SpeechBuffer(r)

\* ------------------------------------------------- App: playback callbacks
\* Lines 80-85: clearLineTimers: clearTimeout of the one id the ref holds.
ClearLineTimers(a) ==
  IF a.lineTimerRef # NoTimer
    THEN [a EXCEPT !.timers = {t \in @ : [src |-> t.src, line |-> t.line] # a.lineTimerRef},
                   !.lineTimerRef = NoTimer]
    ELSE a

\* source.stop() and disconnect(): the node stops, outputs nothing any more,
\* and its 'ended' event is queued.
Stopped(srcs, id) ==
  {IF s.id = id THEN [s EXCEPT !.state = "stopped", !.left = 0, !.buffer = NullAudio]
                ELSE s : s \in srcs}

\* Lines 87-97: stopAudio.
StopAudio(a) ==
  LET b == IF a.audioSourceRef # 0
             THEN [a EXCEPT !.sources = Stopped(@, a.audioSourceRef),
                            !.audioSourceRef = 0]
             ELSE a
  IN [ClearLineTimers(b) EXCEPT !.isPlaying = FALSE, !.currentLineIndex = -1,
                                !.isMixedAudioPlaying = FALSE]

\* Mutant of SetAudioAndSyncData: the download buffer is left as it was.
SetAudioKeepDownload(a, cl, decodedBuffer, rawMp3Buffer, type) ==
  LET b == [a EXCEPT !.currentPlaybackAudioBuffer = decodedBuffer,
                     !.poemLines = Split(cl.generatedPoem)]
  IN IF type = "speechOnly"
       THEN [b EXCEPT !.speechOnlyDecodedBuffer = decodedBuffer,
                      !.speechOnlyRawMp3Buffer = rawMp3Buffer,
                      !.mixedDecodedBuffer = NullAudio,
                      !.mixedRawMp3Buffer = NullMp3,
                      !.isMixedAudioPlaying = FALSE]
       ELSE [b EXCEPT !.mixedDecodedBuffer = decodedBuffer,
                      !.mixedRawMp3Buffer = rawMp3Buffer,
                      !.isMixedAudioPlaying = TRUE]

\* Lines 109-124: setAudioAndSyncData, with the generatedPoem of closure cl.
SetAudioAndSyncData(a, cl, decodedBuffer, rawMp3Buffer, type) ==
  LET b == [a EXCEPT !.currentPlaybackAudioBuffer = decodedBuffer,
                     !.currentDownloadMp3Buffer = rawMp3Buffer,
                     !.poemLines = Split(cl.generatedPoem)]
  IN IF type = "speechOnly"
       THEN [b EXCEPT !.speechOnlyDecodedBuffer = decodedBuffer,
                      !.speechOnlyRawMp3Buffer = rawMp3Buffer,
                      !.mixedDecodedBuffer = NullAudio,
                      !.mixedRawMp3Buffer = NullMp3,
                      !.isMixedAudioPlaying = FALSE]
       ELSE [b EXCEPT !.mixedDecodedBuffer = decodedBuffer,
                      !.mixedRawMp3Buffer = rawMp3Buffer,
                      !.isMixedAudioPlaying = TRUE]

RECURSIVE CharsBefore(_, _)
\* The characters of the lines before line i.
CharsBefore(lines, i) ==
  IF i <= 1 THEN 0 ELSE CharsBefore(lines, i - 1) + lines[i - 1].chars

\* Lines 153-170: cumulativeTime when the timer of line i is set: the sum of
\* totalDuration * (line.length / totalChars) over the lines before it.
LineStart(lines, i, totalDuration) ==
  (totalDuration * CharsBefore(lines, i)) \div CharsBefore(lines, Len(lines) + 1)

\* Lines 163-176: the timers playAudio sets for source s: one per line, and
\* one that clears the highlight after the total duration.
LineTimers(s, lines, totalDuration) ==
  {[src |-> s, line |-> i - 1, left |-> LineStart(lines, i, totalDuration)] :
     i \in DOMAIN lines}
    \cup {[src |-> s, line |-> -1, left |-> totalDuration]}

\* Lines 127-180: playAudio, with the poemLines of closure cl.
PlayAudio(a, cl, buffer) ==
  IF a.audioContext = "none"
    THEN [a EXCEPT !.errorMessage = MsgNoContext]
    ELSE LET b == StopAudio(a)
             s == b.sourceCount + 1
             c == [b EXCEPT !.sourceCount = s,
                            !.sources = @ \cup {[id |-> s, state |-> "playing",
                                                 left |-> buffer.duration,
                                                 buffer |-> buffer]},
                            !.audioSourceRef = s,
                            !.isPlaying = TRUE]
         IN IF Len(cl.poemLines) > 0
              THEN [ClearLineTimers(c) EXCEPT
                      !.timers = @ \cup LineTimers(s, cl.poemLines, buffer.duration),
                      !.lineTimerRef = [src |-> s, line |-> -1]]
              ELSE [c EXCEPT !.currentLineIndex = -1]

\* One more source node may be created (the bound of the model).
CanPlay == app.sourceCount < MaxSources

\* The controls that isLoading || isMixing disables are enabled.
ControlsEnabled == ~app.isLoading /\ ~app.isMixing

\* PlaybackControls is rendered (line 417).
ControlsShown == app.currentPlaybackAudioBuffer # NullAudio

\* ----------------------------------------------------- App: timers, audio
\* Lines 164-168, 172-176: a timer is due: its callback sets the highlight
\* if some source is registered as playing.
TimerFires ==
  \E t \in app.timers :
    /\ t.left = 0
    /\ app' = [app EXCEPT !.timers = @ \ {t},
                          !.currentLineIndex =
                             IF app.audioSourceRef # 0 THEN t.line ELSE @]
    /\ UNCHANGED <<gen, mix, serverVars>>

\* Lines 139-144: source.onended, after the buffer was played to its end or
\* the source was stopped.
SourceEnded ==
  \E s \in app.sources :
    /\ s.left = 0
    /\ app' = [app EXCEPT !.sources = @ \ {s},
                          !.isPlaying = FALSE,
                          !.currentLineIndex = -1,
                          !.audioSourceRef = 0,
                          !.isMixedAudioPlaying = FALSE]
    /\ UNCHANGED <<gen, mix, serverVars>>

\* A second passes: nothing is due, and every pending timer and every
\* playing source is a second closer to its end.
Tick ==
  /\ app.timers \cup app.sources # {}
  /\ \A t \in app.timers : t.left > 0
  /\ \A s \in app.sources : s.left > 0
  /\ app' = [app EXCEPT !.timers = {[t EXCEPT !.left = @ - 1] : t \in @},
                        !.sources = {[s EXCEPT !.left = @ - 1] : s \in @}]
  /\ UNCHANGED <<gen, mix, serverVars>>

\* ------------------------------------------------------ App: user actions
\* Lines 49-59: the first click or keydown creates the audio context: running
\* when the event is a user activation, suspended when it is not.
InitAudioContext ==
  /\ app.audioContext = "none"
  /\ \E st \in {"running", "suspended"} : app' = [app EXCEPT !.audioContext = st]
  /\ UNCHANGED <<gen, mix, serverVars>>

\* Lines 182-193: handlePlayPause.
PlayPause ==
  /\ ControlsShown /\ ControlsEnabled
  /\ IF app.isPlaying
       THEN app' = StopAudio(app)
       ELSE /\ CanPlay
            /\ app' = PlayAudio(app, Closure(app), app.currentPlaybackAudioBuffer)
  /\ UNCHANGED <<gen, mix, serverVars>>

\* Lines 195-197: handleStop.
Stop ==
  /\ ControlsShown /\ ControlsEnabled
  /\ app' = StopAudio(app)
  /\ UNCHANGED <<gen, mix, serverVars>>

\* Lines 339-358: handleDownload.
Download ==
  /\ ControlsShown /\ ControlsEnabled
  /\ app.currentDownloadMp3Buffer # NullMp3
  /\ app' = [app EXCEPT !.downloaded = app.currentDownloadMp3Buffer]
  /\ UNCHANGED <<gen, mix, serverVars>>

\* ----------------------------------------------- App: handleGeneratePoem
\* Lines 288-300: playback is stopped and the state of the previous poem reset.
ResetForGeneration(a) ==
  [StopAudio(a) EXCEPT !.errorMessage = "",
                       !.generatedPoem = NoPoem,
                       !.poemLines = <<>>,
                       !.speechOnlyDecodedBuffer = NullAudio,
                       !.speechOnlyRawMp3Buffer = NullMp3,
                       !.mixedDecodedBuffer = NullAudio,
                       !.mixedRawMp3Buffer = NullMp3,
                       !.currentPlaybackAudioBuffer = NullAudio,
                       !.currentDownloadMp3Buffer = NullMp3,
                       !.musicChoice = "none",
                       !.isLoading = TRUE]

\* Lines 330-336: catch and finally of handleGeneratePoem.
GenCatch(a, msg) == [a EXCEPT !.errorMessage = msg, !.isLoading = FALSE]

\* The invocations of handleGeneratePoem in flight.
GensInFlight == {g \in Gens : gen[g].pc # "idle"}

\* Lines 279-300: a click on the (enabled) button with a non-blank input.
\* With a suspended audio context the handler first awaits resume(); with no
\* audio context yet, this very click creates it once the handler has returned.
ClickGenerate(g) ==
  /\ gen[g].pc = "idle"
  /\ \A h \in Gens : h < g => gen[h].pc # "idle"
  /\ ControlsEnabled
  /\ app.poemCount + Cardinality(GensInFlight) < MaxPoems
  /\ IF app.audioContext = "suspended"
       THEN /\ gen' = [gen EXCEPT ![g] = [NoGen EXCEPT !.pc = "resume",
                                                       !.cl = Closure(app)]]
            /\ UNCHANGED app
       ELSE /\ gen' = [gen EXCEPT ![g] = [NoGen EXCEPT !.pc = "generateContent",
                                                       !.cl = Closure(app)]]
            /\ app' = [ResetForGeneration(app) EXCEPT !.audioContext = "running"]
  /\ UNCHANGED <<mix, serverVars>>

\* Line 286: resume() resolves: the context runs and every invocation that
\* awaited it goes on with the reset.
Resumed ==
  /\ app.audioContext = "suspended"
  /\ \E g \in Gens : gen[g].pc = "resume"
  /\ app' = [ResetForGeneration(app) EXCEPT !.audioContext = "running"]
  /\ gen' = [g \in Gens |-> IF gen[g].pc = "resume"
                                THEN [gen[g] EXCEPT !.pc = "generateContent"]
                                ELSE gen[g]]
  /\ UNCHANGED <<mix, serverVars>>

\* Lines 304-316: await ai.models.generateContent(...) resolves with a poem,
\* resolves without text, or rejects.
GenerateContent(g) ==
  /\ gen[g].pc = "generateContent"
  /\ \/ /\ app' = [app EXCEPT !.poemCount = @ + 1, !.generatedPoem = app.poemCount + 1]
        /\ gen' = [gen EXCEPT ![g].pc = "generateSpeech",
                              ![g].poemText = app.poemCount + 1]
     \/ \E msg \in {MsgNoPoemText, MsgNetwork} :
          /\ app' = GenCatch(app, msg)
          /\ gen' = [gen EXCEPT ![g] = NoGen]
  /\ UNCHANGED <<mix, serverVars>>

\* Lines 319-323: await generateSpeech(poemText) settles.
GenSpeech(g) ==
  /\ gen[g].pc = "generateSpeech"
  /\ \E o \in FetchOutcomes :
       LET promise == GenerateSpeech(gen[g].poemText, o)
           a == [app EXCEPT !.speechPromise = promise]
       IN IF promise.settled = "rejected"
            THEN /\ app' = GenCatch(a, promise.message)
                 /\ gen' = [gen EXCEPT ![g] = NoGen]
            ELSE IF promise.value = NullMp3 \/ a.audioContext = "none"
              THEN /\ app' = GenCatch(a, MsgMuse)
                   /\ gen' = [gen EXCEPT ![g] = NoGen]
              ELSE /\ app' = a
                   /\ gen' = [gen EXCEPT ![g].pc = "decode",
                                         ![g].speech = promise.value]
  /\ UNCHANGED <<mix, serverVars>>

\* Lines 323-336: await decodeAudioData(...) resolves: the narration becomes
\* the current audio and is played; or it rejects.
GenDecode(g) ==
  /\ gen[g].pc = "decode"
  /\ \/ /\ CanPlay
        /\ LET buffer == Decoded(gen[g].speech)
               a == SetAudioAndSyncData(app, gen[g].cl, buffer, gen[g].speech, "speechOnly")
           IN app' = [PlayAudio(a, gen[g].cl, buffer) EXCEPT !.isLoading = FALSE]
     \/ app' = GenCatch(app, MsgDecode)
  /\ gen' = [gen EXCEPT ![g] = NoGen]
  /\ UNCHANGED <<mix, serverVars>>

\* ------------------------------------------------ App: handleMusicChange
\* Mutant of MixCatch: the narration is not restored as the current audio.
MixCatchNoRestore(a, cl, msg) ==
  [a EXCEPT !.errorMessage = msg, !.musicChoice = "none", !.isMixing = FALSE]

\* Lines 261-272: catch and finally of handleMusicChange, with the narration
\* buffers of closure cl.
MixCatch(a, cl, msg) ==
  LET b == [a EXCEPT !.errorMessage = msg, !.musicChoice = "none"]
      c == IF cl.speechOnlyDecodedBuffer # NullAudio /\ cl.speechOnlyRawMp3Buffer # NullMp3
             THEN SetAudioAndSyncData(b, cl, cl.speechOnlyDecodedBuffer,
                                      cl.speechOnlyRawMp3Buffer, "speechOnly")
             ELSE b
  IN [c EXCEPT !.isMixing = FALSE]

\* Lines 199-260: the select element changes to m: the guards, then the
\* synchronous part of the handler up to its first await (or, for 'none' with
\* the narration at hand, to its end).
MusicChange(m) ==
  /\ mix.pc = "idle"
  /\ ControlsShown /\ ControlsEnabled
  /\ m \in MusicOptions \ {app.musicChoice}
  /\ LET cl == Closure(app)
         a == [StopAudio(app) EXCEPT !.errorMessage = "", !.musicChoice = m,
                                     !.isMixing = TRUE]
     IN CASE cl.generatedPoem = NoPoem ->
               /\ app' = [app EXCEPT !.errorMessage = MsgNoNarration]
               /\ UNCHANGED mix
          [] cl.generatedPoem # NoPoem /\ app.audioContext = "none" ->
               /\ app' = [app EXCEPT !.errorMessage = MsgNoContext]
               /\ UNCHANGED mix
          [] OTHER ->
               IF m = "none"
                 THEN IF cl.speechOnlyDecodedBuffer # NullAudio
                           /\ cl.speechOnlyRawMp3Buffer # NullMp3
                        THEN /\ CanPlay
                             /\ app' = [PlayAudio(
                                          SetAudioAndSyncData(a, cl, cl.speechOnlyDecodedBuffer,
                                                              cl.speechOnlyRawMp3Buffer, "speechOnly"),
                                          cl, cl.currentPlaybackAudioBuffer)
                                        EXCEPT !.isMixing = FALSE]
                             /\ UNCHANGED mix
                        ELSE /\ app' = a
                             /\ mix' = [NoMix EXCEPT !.pc = "regenerate", !.cl = cl,
                                                     !.newMusicChoice = m]
                 ELSE /\ app' = a
                      /\ mix' = IF cl.speechOnlyRawMp3Buffer # NullMp3
                                  THEN [NoMix EXCEPT !.pc = "fetch", !.cl = cl,
                                                     !.newMusicChoice = m,
                                                     !.voice = cl.speechOnlyRawMp3Buffer]
                                  ELSE [NoMix EXCEPT !.pc = "generateSpeech", !.cl = cl,
                                                     !.newMusicChoice = m]
  /\ UNCHANGED <<gen, serverVars>>

\* Lines 223-224, 234-238: await generateSpeech(generatedPoem) settles.
MixSpeech ==
  /\ mix.pc \in {"regenerate", "generateSpeech"}
  /\ \E o \in FetchOutcomes :
       LET promise == GenerateSpeech(mix.cl.generatedPoem, o)
           a == [app EXCEPT !.speechPromise = promise]
       IN IF promise.settled = "rejected"
            THEN /\ app' = MixCatch(a, mix.cl, promise.message)
                 /\ mix' = NoMix
            ELSE IF promise.value = NullMp3
              THEN /\ app' = MixCatch(a, mix.cl, IF mix.pc = "regenerate"
                                                   THEN MsgNoRegen ELSE MsgNoVoiceMp3)
                   /\ mix' = NoMix
              ELSE IF mix.pc = "regenerate"
                THEN /\ app' = a
                     /\ mix' = [mix EXCEPT !.pc = "regenerateDecode",
                                           !.voice = promise.value]
                ELSE /\ app' = [a EXCEPT !.speechOnlyRawMp3Buffer = promise.value]
                     /\ mix' = [mix EXCEPT !.pc = "fetch", !.voice = promise.value]
  /\ UNCHANGED <<gen, serverVars>>

\* Lines 225-228: await decodeAudioData(...) of the regenerated narration.
MixRegenerateDecode ==
  /\ mix.pc = "regenerateDecode"
  /\ \/ /\ CanPlay
        /\ app' = [PlayAudio(
                     SetAudioAndSyncData(app, mix.cl, Decoded(mix.voice), mix.voice,
                                         "speechOnly"),
                     mix.cl, mix.cl.currentPlaybackAudioBuffer)
                   EXCEPT !.isMixing = FALSE]
     \/ app' = MixCatch(app, mix.cl, MsgDecode)
  /\ mix' = NoMix
  /\ UNCHANGED <<gen, serverVars>>

\* Lines 244-252: await fetch('/api/mix', ...) settles.
MixFetch ==
  /\ mix.pc = "fetch"
  /\ \/ /\ mix' = [mix EXCEPT !.pc = "blob",
                                !.mixed = MixedMp3(mix.voice, mix.newMusicChoice)]
        /\ UNCHANGED app
     \/ \E msg \in {MsgFfmpeg, MsgUnknownMix, MsgNetwork} :
          /\ app' = MixCatch(app, mix.cl, msg)
          /\ mix' = NoMix
  /\ UNCHANGED <<gen, serverVars>>

\* Lines 254-255: await response.blob() and blob.arrayBuffer().
MixBlob ==
  /\ mix.pc = "blob"
  /\ \/ /\ mix' = [mix EXCEPT !.pc = "decode"]
        /\ UNCHANGED app
     \/ /\ app' = MixCatch(app, mix.cl, MsgNetwork)
        /\ mix' = NoMix
  /\ UNCHANGED <<gen, serverVars>>

\* Lines 256-259: await decodeAudioData(...) of the mix: it becomes the
\* current audio and is played; or it rejects.
MixDecode ==
  /\ mix.pc = "decode"
  /\ \/ /\ CanPlay
        /\ LET buffer == Decoded(mix.mixed)
           IN app' = [PlayAudio(
                        SetAudioAndSyncData(app, mix.cl, buffer, mix.mixed, "mixed"),
                        mix.cl, buffer)
                      EXCEPT !.isMixing = FALSE]
     \/ app' = MixCatch(app, mix.cl, MsgDecode)
  /\ mix' = NoMix
  /\ UNCHANGED <<gen, serverVars>>

\* The promise handleMusicChange awaits settles and the handler goes on.
\* (MixSpeech and MixRegenerateDecode continue the fallback of lines 221-227
\* and 232-238, taken when the narration buffers are null.)
MixSettles ==
  /\ mix.pc # "idle"
  /\ \/ MixSpeech
     \/ MixRegenerateDecode
     \/ MixFetch
     \/ MixBlob
     \/ MixDecode

\* The steps of the browser application.
AppNext ==
  \/ InitAudioContext
  \/ \E g \in Gens : ClickGenerate(g)
  \/ Resumed
  \/ \E g \in Gens : GenerateContent(g)
  \/ \E g \in Gens : GenSpeech(g)
  \/ \E g \in Gens : GenDecode(g)
  \/ \E m \in MusicOptions : MusicChange(m)
  \/ MixSettles
  \/ PlayPause
  \/ Stop
  \/ Download
  \/ TimerFires
  \/ SourceEnded
  \/ Tick

AppSpec == Init /\ [][AppNext]_vars

\* The steps of request r's handler and of the processor and stream it waits for.
HandlerStep(r) ==
  \/ Receive(r)
  \/ Parse(r)
  \/ Access(r)
  \/ Mkdir(r)
  \/ Rename(r)
  \/ FfmpegEnd(r)
  \/ FfmpegError(r)
  \/ Stat(r)
  \/ StreamOpen(r)
  \/ StreamData(r)
  \/ StreamEnd(r)
  \/ StreamError(r)
  \/ PostStreamCleanup(r)
  \/ Finally(r)

Next == \E r \in Reqs : HandlerStep(r) \/ ClientDisconnect(r) \/ VoiceStep(r)

Spec == Init /\ [][Next]_vars

\* ------------------------------------------------------------ observations
Range(q) == {q[i] : i \in DOMAIN q}

\* The scratch paths request r has generated.
Paths(r) == {voiceFilePath[r], mixedFilePath[r]} \ {NoPath}

\* The paths request r has called fs.unlink on.
UnlinkAttempted(r) == {c[2] : c \in {d \in Range(calls[r]) : d[1] = "unlink"}}

Did(r, op, outcome) == \E c \in Range(calls[r]) : c[1] = op /\ c[3] = outcome

\* The scratch files on disk that request r wrote.
ScratchFilesOf(r) == {p \in ScratchPaths : fs[p].owner = r}

InFlight(r) == pc[r] \notin {"idle", "done"}

\* ------------------------------------------------------------------ claims

\* C1: when the handler has finished, on every exit path, each scratch path
\* the request generated (voice copy, mix output) has had fs.unlink called on
\* it at least once.
C1_CleanupAttempted ==
  \A r \in Reqs : pc[r] = "done" => Paths(r) \subseteq UnlinkAttempted(r)

\* C1 witness: one request finished by normal completion and another after a
\* processor error, both with generated scratch paths.
C1_Witness ==
  \E r1 \in Reqs, r2 \in Reqs :
    /\ pc[r1] = "done" /\ readStream[r1].state = "end" /\ Paths(r1) # {}
    /\ pc[r2] = "done" /\ ffmpegProc[r2].state = "error" /\ Paths(r2) # {}

\* C2 (as claimed): once the caller has disconnected mid-stream, the handler
\* still gets to attempt the deletion of both scratch files: as long as it has
\* not, some step of the handler remains to be taken.
C2_DisconnectCleanup ==
  \A r \in Reqs :
    readStream[r].state = "unpiped" =>
      \/ Paths(r) \subseteq UnlinkAttempted(r)
      \/ ENABLED HandlerStep(r)

\* C3 (as claimed): a request whose processor failed is answered 500 with a
\* non-empty message, and once its handler has finished none of its scratch
\* files exists.
C3_Original ==
  \A r \in Reqs :
    (pc[r] = "done" /\ ffmpegProc[r].state = "error") =>
      /\ res[r].statusCode = 500 /\ res[r].body # ""
      /\ ScratchFilesOf(r) = {}

\* C3 (amended): a request whose processor failed is answered 500 with a
\* non-empty message, and once its handler has finished, a scratch file of
\* the request exists only where the handler's unlink of it failed with an
\* error other than ENOENT; when every request has finished and no unlink
\* failed so, the scratch directory is empty.
C3_ProcessorFailure ==
  /\ \A r \in Reqs :
       (pc[r] = "done" /\ ffmpegProc[r].state = "error") =>
         /\ res[r].statusCode = 500 /\ res[r].body # ""
         /\ \A p \in ScratchFilesOf(r) : <<"unlink", p, "EPERM">> \in Range(calls[r])
  /\ ( /\ \A r \in Reqs : pc[r] = "done"
       /\ \E r \in Reqs : ffmpegProc[r].state = "error"
       /\ \A r \in Reqs : ~Did(r, "unlink", "EPERM") )
     => \A p \in ScratchPaths : fs[p] = NoFile

\* C3 witness: a finished request whose processor failed leaving a partial
\* output, both of whose scratch files were removed by the finally block.
C3_Witness ==
  \E r \in Reqs :
    /\ pc[r] = "done" /\ ffmpegProc[r].state = "error"
    /\ <<"unlink", voiceFilePath[r], "ok">> \in Range(calls[r])
    /\ <<"unlink", mixedFilePath[r], "ok">> \in Range(calls[r])
    /\ \A q \in Reqs : pc[q] = "done"

C5_NoVoice ==
  \A r \in Reqs :
    (Did(r, "parse", "ok") /\ voiceAudioFile[r] = NoPath) =>
      /\ res[r].statusCode = 400 /\ res[r].finished
      /\ Paths(r) = {}
      /\ \A c \in Range(calls[r]) : c[1] \notin {"access", "mkdir", "rename", "ffmpeg"}
      /\ ffmpegProc[r].state = "none"

\* C5 witness: a finished request without narration part but with a valid key.
C5_Witness ==
  \E r \in Reqs :
    /\ pc[r] = "done" /\ Did(r, "parse", "ok")
    /\ voiceAudioFile[r] = NoPath /\ musicChoice[r] = "ambient"

\* C6: when the key is valid but fs.access of the track fails, the response
\* is 500 with a message that is neither validation message, no scratch path
\* is generated and the processor is never spawned.
C6_TrackMissing ==
  \A r \in Reqs :
    Did(r, "access", "error") =>
      /\ musicChoice[r] \in MUSIC_FILES
      /\ res[r].statusCode = 500
      /\ res[r].body \notin {"", MsgNoVoice, MsgNoMusic}
      /\ Paths(r) = {}
      /\ ffmpegProc[r].state = "none"

\* C6 witness: a finished request whose track file was not accessible.
C6_Witness ==
  \E r \in Reqs : pc[r] = "done" /\ Did(r, "access", "error")

\* C7 (as claimed): a request that ran to normal completion (narration, known
\* key, track present, processor, stat and stream all succeeded) has status
\* 200, content type audio/mpeg and a Content-Length equal to the size of the
\* mix its processor produced, which is the number of bytes streamed.
C7_ContentLength ==
  \A r \in Reqs :
    (ffmpegProc[r].state = "end" /\ readStream[r].state = "end") =>
      /\ res[r].statusCode = 200
      /\ res[r].contentType = "audio/mpeg"
      /\ res[r].contentLength = ffmpegProc[r].size
      /\ res[r].bytes = res[r].contentLength

\* C8: audio headers are set, the read stream exists and body bytes are
\* written only after the processor has signalled 'end': never while it runs
\* nor after its 'error'.
C8_NothingBeforeSuccess ==
  \A r \in Reqs :
    (res[r].contentType = "audio/mpeg" \/ res[r].contentLength # -1
       \/ res[r].bytes > 0 \/ readStream[r].state # "none") =>
      ffmpegProc[r].state = "end"

\* C8 witness: audio headers set and a body byte written.
C8_Witness ==
  \E r \in Reqs : res[r].contentType = "audio/mpeg" /\ res[r].bytes > 0

C10_DistinctPaths ==
  \A r1 \in Reqs, r2 \in Reqs :
    (r1 # r2 /\ InFlight(r1) /\ InFlight(r2)) => Paths(r1) \cap Paths(r2) = {}

\* The calls request r makes in the step at hand.
NewCalls(r) == {calls'[r][i] : i \in (Len(calls[r]) + 1)..Len(calls'[r])}

\* Request r has unlinked p successfully and, later, called unlink on p again
\* and got ENOENT.
DeletedTwice(r, p) ==
  \E i \in DOMAIN calls[r], j \in DOMAIN calls[r] :
    /\ i < j
    /\ calls[r][i] = <<"unlink", p, "ok">>
    /\ calls[r][j] = <<"unlink", p, "ENOENT">>

\* C11: an unlink the handler calls on a path where nothing is (the empty
\* path of a request that generated none, or a scratch path already deleted)
\* ends with ENOENT, which is swallowed: the response stays as it is, the
\* handler goes on to its next position, the path stays absent, and when
\* both unlinks of a cleanup pass are of this kind the filesystem is unchanged.
C11_IdempotentDelete ==
  [][\A r \in Reqs :
       /\ \A c \in NewCalls(r) :
            (c[1] = "unlink" /\ (c[2] = NoPath \/ fs[c[2]] = NoFile)) =>
              /\ c[3] = "ENOENT"
              /\ res'[r] = res[r]
              /\ pc'[r] = IF pc[r] = "timer" THEN "finally" ELSE "done"
              /\ c[2] # NoPath => fs'[c[2]] = NoFile
       /\ (NewCalls(r) # {} /\ \A c \in NewCalls(r) : c[1] = "unlink" /\ c[3] = "ENOENT")
            => fs' = fs
    ]_vars

\* C11 witness: one finished request deleted both scratch files after the
\* stream and met ENOENT on both in the finally block; another finished
\* without ever generating a path and unlinked the empty path.
C11_Witness ==
  \E r1 \in Reqs, r2 \in Reqs :
    /\ pc[r1] = "done"
    /\ DeletedTwice(r1, voiceFilePath[r1]) /\ DeletedTwice(r1, mixedFilePath[r1])
    /\ res[r1].statusCode = 200 /\ res[r1].bytes = res[r1].contentLength
    /\ pc[r2] = "done" /\ Paths(r2) = {}
    /\ <<"unlink", NoPath, "ENOENT">> \in Range(calls[r2])

\* C12: an unlink that fails with an error other than ENOENT changes neither
\* the status nor the body of the response, and the handler goes on to its
\* next position as if the unlink had succeeded.
C12_DeleteFailureOnlyLogged ==
  [][\A r \in Reqs :
       (\E c \in NewCalls(r) : c[1] = "unlink" /\ c[3] = "EPERM") =>
         /\ res'[r] = res[r]
         /\ pc'[r] = IF pc[r] = "timer" THEN "finally" ELSE "done"
    ]_vars

\* C12 witness: a request answered 500 after a processor error finished
\* although an unlink of its finally block failed, and a request whose
\* post-stream unlink failed finished with its 200 response.
C12_Witness ==
  \E r1 \in Reqs, r2 \in Reqs :
    /\ pc[r1] = "done" /\ ffmpegProc[r1].state = "error"
    /\ Did(r1, "unlink", "EPERM") /\ res[r1].statusCode = 500
    /\ pc[r2] = "done" /\ readStream[r2].state = "end"
    /\ Did(r2, "unlink", "EPERM") /\ res[r2].statusCode = 200

\* How many times request r has started the external processor.
Spawns(r) == Cardinality({i \in DOMAIN calls[r] : calls[r][i][1] = "ffmpeg"})

\* C13: a request starts the processor at most once; from the moment the
\* processor has failed, the response is the finished 500 JSON error with
\* the processor-failure message, no audio header is set, no read stream
\* exists, no body byte is written and the handler is on its way out.
C13_ProcessorOnceNoFallback ==
  \A r \in Reqs :
    /\ Spawns(r) <= 1
    /\ ffmpegProc[r].state # "none" => Spawns(r) = 1
    /\ ffmpegProc[r].state = "error" =>
         /\ res[r] = Json(NewResponse, 500, MsgFfmpeg)
         /\ readStream[r].state = "none"
         /\ pc[r] \in {"finally", "done"}

\* C13 witness: the processor failed leaving a partial mix on disk, and the
\* request is answered before its finally block has run.
C13_Witness ==
  \E r \in Reqs :
    /\ ffmpegProc[r].state = "error" /\ pc[r] = "finally"
    /\ fs[mixedFilePath[r]] = NewFile(r, 0) /\ fs[voiceFilePath[r]] # NoFile
    /\ res[r].finished

\* C14: once the headers of a response are sent, no step changes its status,
\* its headers or its body text, whatever error happens afterwards; a
\* finished response never changes at all, and while the body is streamed
\* only the number of bytes written grows.
C14_AtMostOneResponse ==
  [][\A r \in Reqs :
       /\ res[r].headersSent =>
            /\ res'[r].headersSent
            /\ res'[r].statusCode = res[r].statusCode
            /\ res'[r].contentType = res[r].contentType
            /\ res'[r].contentLength = res[r].contentLength
            /\ res'[r].body = res[r].body
            /\ res'[r].bytes >= res[r].bytes
       /\ res[r].finished => res'[r] = res[r]
    ]_vars

\* C14 witness: the read stream failed after the headers and a body byte
\* were sent; the handler has finished and the response is still the
\* unfinished 200 it began.
C14_Witness ==
  \E r \in Reqs :
    /\ pc[r] = "done" /\ readStream[r].state = "error"
    /\ res[r].headersSent /\ res[r].bytes > 0 /\ ~res[r].finished
    /\ res[r].statusCode = 200

\* Request r met an exception of a library or system call inside the try block.
Threw(r) ==
  \E op \in {"parse", "mkdir", "rename", "stat"} : Did(r, op, "error")

\* C15 (as claimed): a request that met an exception in the parse, in mkdir,
\* in the move of the upload or in stat is answered 500 with the generic
\* message, and when its handler has finished the final cleanup pass has
\* called unlink on both path variables.
C15_CaughtGeneric ==
  \A r \in Reqs :
    Threw(r) =>
      /\ res[r] = Json(NewResponse, 500, MsgGeneric)
      /\ pc[r] \in {"finally", "done"}
      /\ pc[r] = "done" =>
           {voiceFilePath[r], mixedFilePath[r]} \subseteq UnlinkAttempted(r)

\* C16: a request whose method is not POST is answered 405 with the JSON
\* error by either endpoint, and its handler has finished having done nothing
\* else: on the mixing endpoint no parse, no scratch path, no file, no
\* processor, no stream and no unlink; on the voice endpoint no call of the
\* speech model.
C16_MethodNotAllowed ==
  \A r \in Reqs :
    /\ method[r] \notin {"", "POST"} =>
         /\ res[r] = Json(NewResponse, 405, MsgMethod)
         /\ pc[r] = "done"
         /\ calls[r] = <<>>
         /\ voiceAudioFile[r] = NoPath /\ Paths(r) = {}
         /\ ffmpegProc[r] = NoProc /\ readStream[r] = NoStream
         /\ \A p \in AllPaths : fs[p].owner # r
    /\ voiceReq[r].method \notin {"", "POST"} =>
         /\ voiceRes[r] = Json(NewResponse, 405, MsgMethod)
         /\ pc[r] = "done"
         /\ calls[r] = <<>>
         /\ mp3[r] = NoMp3

\* C16 witness: a GET was sent to each endpoint, the one to the voice
\* endpoint with a body that has a text, and both are answered.
C16_Witness ==
  \E r1 \in Reqs, r2 \in Reqs :
    /\ method[r1] = "GET" /\ res[r1].finished
    /\ voiceReq[r2] = [method |-> "GET", body |-> "{text:'poem'}"]
    /\ voiceRes[r2].finished

\* C17 (as claimed): when the voice handler is through with a POST, the
\* response is one of: 200 with content type audio/mpeg and the bytes the
\* speech model produced; the 400 JSON error, for a missing or empty text and
\* with the speech model never called; a 500 JSON error, after the call of
\* the speech model failed.
C17_VoiceOutcomes ==
  \A r \in Reqs :
    (voiceReq[r].method = "POST" /\ pc[r] \in {"done", "threw"}) =>
      \/ /\ voiceRes[r] = SendAudio(NewResponse, mp3[r].size)
         /\ mp3[r].state = "ok" /\ mp3[r].size \in Sizes
         /\ ~NoText(voiceReq[r].body) /\ Destructures(voiceReq[r].body)
      \/ /\ voiceRes[r] = Json(NewResponse, 400, MsgNoText)
         /\ mp3[r] = NoMp3 /\ calls[r] = <<>>
      \/ /\ \E m \in SysMessages : voiceRes[r] = Json(NewResponse, 500, MsgSpeech(m))
         /\ mp3[r].state = "error"

\* C18 (as claimed): a highlight timer that fires when the source it was set
\* for is no longer the registered one (that playback was stopped, or
\* replaced by a new one) leaves currentLineIndex as it is.
C18_StoppedTimersInert ==
  [][\A t \in app.timers :
       ( /\ t.left = 0
         /\ t.src # app.audioSourceRef
         /\ app' = [app EXCEPT !.timers = @ \ {t},
                               !.currentLineIndex = app'.currentLineIndex] )
         => app'.currentLineIndex = app.currentLineIndex
    ]_vars

\* C19 (as claimed): a generateSpeech call that has settled resolved: with
\* the MP3 data when its fetch got a 2xx response, with null when the
\* response was not 2xx or the fetch failed.
C19_ResolvesNullOnError ==
  app.speechPromise.settled # "none" =>
    /\ app.speechPromise.settled = "resolved"
    /\ app.speechPromise.fetch = "ok" => app.speechPromise.value.kind = "speech"
    /\ app.speechPromise.fetch # "ok" => app.speechPromise.value = NullMp3

\* C20: the playback buffer and the download buffer are both null, or both
\* set with the playback buffer decoded from the very MP3 data that is
\* offered for download (the same poem, speech-only or the same mix).
C20_DownloadIsCurrent ==
  \/ /\ app.currentPlaybackAudioBuffer = NullAudio
     /\ app.currentDownloadMp3Buffer = NullMp3
  \/ /\ app.currentPlaybackAudioBuffer # NullAudio
     /\ app.currentDownloadMp3Buffer # NullMp3
     /\ TrackOf(app.currentPlaybackAudioBuffer) = app.currentDownloadMp3Buffer

\* C20 witness: a mix of the first poem was downloaded; later a second poem
\* was generated, a change of music for it failed and the narration of the
\* second poem was restored; playback is stopped.
C20_Witness ==
  /\ app.downloaded = MixedMp3(SpeechMp3(1), "ambient")
  /\ app.currentDownloadMp3Buffer = SpeechMp3(2)
  /\ app.errorMessage = MsgFfmpeg
  /\ ~app.isPlaying /\ app.audioSourceRef = 0
  /\ ~app.isMixing /\ ~app.isLoading

\* No timer callback and no 'ended' event is waiting to be delivered.
NothingDue ==
  /\ \A t \in app.timers : t.left > 0
  /\ \A s \in app.sources : s.left > 0

\* The line whose start is the latest one not after offset o: the line the
\* proportional allocation highlights at offset o of a playback of duration
\* totalDuration (-1 when there are no lines).
HighlightAt(lines, totalDuration, o) ==
  IF lines = <<>> THEN -1
  ELSE (CHOOSE i \in DOMAIN lines :
          /\ LineStart(lines, i, totalDuration) <= o
          /\ \A j \in DOMAIN lines :
               LineStart(lines, j, totalDuration) <= o => j <= i) - 1

\* C21 (as claimed): while a buffer is being played, the highlighted line is
\* the one the proportional allocation gives for the offset reached: line i
\* from offset D * (characters before i) / (all characters) on, in line order
\* from offset 0; once nothing is played (offset D passed, or stopped), the
\* highlight is cleared.
C21_HighlightSchedule ==
  NothingDue =>
    /\ \A s \in app.sources :
         s.state = "playing" =>
           app.currentLineIndex =
             HighlightAt(Split(s.buffer.poem), s.buffer.duration,
                         s.buffer.duration - s.left)
    /\ (\A s \in app.sources : s.state # "playing") => app.currentLineIndex = -1

\* The step ends an invocation of handleMusicChange for a real track in its
\* catch block: nothing is played.
MixFails ==
  /\ mix.pc # "idle" /\ mix'.pc = "idle"
  /\ mix.newMusicChoice # "none"
  /\ app'.sourceCount = app.sourceCount

\* C22: when a change of music to a real track fails (speech regeneration,
\* mix request, body or decode), musicChoice ends 'none' and isMixing false,
\* and if the speech-only buffers exist they are the current playback and
\* download buffers and the mixed buffers are null.
C22_FailedMixReverts ==
  [][MixFails =>
       /\ app'.musicChoice = "none"
       /\ ~app'.isMixing
       /\ (app'.speechOnlyDecodedBuffer # NullAudio /\ app'.speechOnlyRawMp3Buffer # NullMp3) =>
            /\ app'.currentPlaybackAudioBuffer = app'.speechOnlyDecodedBuffer
            /\ app'.currentDownloadMp3Buffer = app'.speechOnlyRawMp3Buffer
            /\ app'.mixedDecodedBuffer = NullAudio
            /\ app'.mixedRawMp3Buffer = NullMp3
    ]_vars

\* C22 witness: an orchestral mix of the first poem was made and downloaded;
\* a later change of music failed at decoding, and the narration of the poem
\* is the current audio again, with no mixed buffer.
C22_Witness ==
  /\ app.downloaded = MixedMp3(SpeechMp3(1), "orchestral")
  /\ app.errorMessage = MsgDecode
  /\ mix.pc = "idle" /\ ~app.isMixing
  /\ app.musicChoice = "none"
  /\ app.currentPlaybackAudioBuffer = Decoded(SpeechMp3(1))
  /\ app.currentDownloadMp3Buffer = SpeechMp3(1)
  /\ app.mixedRawMp3Buffer = NullMp3

\* The step switches the music choice from a real track to 'none' and starts
\* a playback (lines 210-228, or their continuation after a regeneration).
SwitchedToNone ==
  /\ app.musicChoice # "none" /\ app'.musicChoice = "none"
  /\ app'.sourceCount = app.sourceCount + 1

\* C23 (as claimed): when the music choice is switched from a mixed track to
\* 'none', the source that starts playing plays the speech-only buffer, the
\* buffer that becomes currentPlaybackAudioBuffer, and not the mixed buffer
\* selected before.
C23_NonePlaysSpeechOnly ==
  [][SwitchedToNone =>
       \A s \in app'.sources :
         s.id = app'.sourceCount =>
           /\ s.buffer = app'.currentPlaybackAudioBuffer
           /\ s.buffer = app'.speechOnlyDecodedBuffer
           /\ s.buffer.kind = "speech"
    ]_vars

\* audioSourceRef.current holds a source that was started and whose 'ended'
\* event has not been delivered.
RefHoldsLiveSource ==
  \E s \in app.sources : s.id = app.audioSourceRef /\ s.state = "playing"

\* C24 (as claimed): isPlaying is true exactly when audioSourceRef holds a
\* started, not yet ended source; and the 'ended' callback of a source that
\* was stopped leaves the reference to, and the playing flag of, a source
\* started after it as they were.
C24_PlayingIffSource ==
  [][ /\ (app'.isPlaying <=> RefHoldsLiveSource')
      /\ \A s \in app.sources :
           ( /\ s.state = "stopped"
             /\ s \notin app'.sources
             /\ app.audioSourceRef > s.id )
             => /\ app'.audioSourceRef = app.audioSourceRef
                /\ app'.isPlaying = app.isPlaying
    ]_vars

\* The step runs the reset of lines 288-300 for some invocation of
\* handleGeneratePoem.
GenStarts ==
  \E g \in Gens : gen[g].pc \in {"idle", "resume"} /\ gen'[g].pc = "generateContent"

\* The step ends an invocation of handleGeneratePoem in its catch block, after
\* generateContent or generateSpeech failed.
GenFails ==
  \E g \in Gens : gen[g].pc \in {"generateContent", "generateSpeech"} /\ gen'[g].pc = "idle"

\* C25 (as claimed): the start of a generation stops playback, resets
\* musicChoice to 'none' and clears the poem, its lines and the six audio
\* buffers; when the generation or the speech synthesis then fails, no audio
\* is available for playback or download, an error message is set and
\* isLoading is false.
C25_GenerationResetsAndFails ==
  [][ /\ GenStarts =>
           /\ ~app'.isPlaying
           /\ \A s \in app'.sources : s.state # "playing"
           /\ app'.musicChoice = "none"
           /\ app'.generatedPoem = NoPoem /\ app'.poemLines = <<>>
           /\ app'.speechOnlyDecodedBuffer = NullAudio
           /\ app'.speechOnlyRawMp3Buffer = NullMp3
           /\ app'.mixedDecodedBuffer = NullAudio
           /\ app'.mixedRawMp3Buffer = NullMp3
           /\ app'.currentPlaybackAudioBuffer = NullAudio
           /\ app'.currentDownloadMp3Buffer = NullMp3
      /\ GenFails =>
           /\ app'.currentPlaybackAudioBuffer = NullAudio
           /\ app'.currentDownloadMp3Buffer = NullMp3
           /\ app'.errorMessage # ""
           /\ ~app'.isLoading
    ]_vars

\* The step ends an invocation of handleGeneratePoem successfully: the
\* narration of its poem was decoded and its playback started.
GenSucceeds ==
  \E g \in Gens : /\ gen[g].pc = "decode" /\ gen'[g].pc = "idle"
                  /\ app'.sourceCount = app.sourceCount + 1

\* C26 (as claimed): after a successful generation, poemLines is the list of
\* the non-empty lines of the poem just generated, the one whose narration is
\* played, and the highlight timers of the auto-started playback are those
\* computed from these lines.
C26_LinesOfNewPoem ==
  [][GenSucceeds =>
       \A s \in app'.sources :
         s.id = app'.sourceCount =>
           /\ app'.poemLines = Split(s.buffer.poem)
           /\ {t \in app'.timers : t.src = s.id} =
                LineTimers(s.id, Split(s.buffer.poem), s.buffer.duration)
    ]_vars

\* An invocation of handleGeneratePoem is past its reset and has not finished.
Generating == \E g \in Gens : gen[g].pc \in {"generateContent", "generateSpeech", "decode"}

\* An invocation of handleMusicChange is awaiting a call.
Mixing == mix.pc # "idle"

\* C27 (as claimed): a poem generation and a music mixing operation are never
\* in progress at the same time, and isLoading and isMixing are never both
\* true.
C27_NeverBothInProgress ==
  /\ ~(app.isLoading /\ app.isMixing)
  /\ ~(Generating /\ Mixing)

\* C28 (as claimed): when the mix handler has finished after a narration
\* upload was parsed, the file the multipart parser wrote is no longer at
\* its upload path: it was moved to the voice scratch path or deleted.
C28_UploadNotLeft ==
  \A r \in Reqs :
    (pc[r] = "done" /\ voiceAudioFile[r] # NoPath) => fs[voiceAudioFile[r]] = NoFile
====
